---- MODULE Spec2Model ----
(***************************************************************************)
(* Model of parse-commit-message: the header grammar engine                *)
(* (stringToHeader), the header operations (parseHeader, checkHeader,      *)
(* validateHeader, stringifyHeader) and the commit operations              *)
(* (parseCommit, checkCommit, validateCommit, stringifyCommit).            *)
(*                                                                         *)
(* A JavaScript string is a sequence of one-character strings.  A          *)
(* JavaScript value that may be a string, null, undefined, a missing       *)
(* object key or a value of another type is a record [k, s]: k is the      *)
(* kind and s the characters (empty unless k = "string").                  *)
(***************************************************************************)
EXTENDS Integers, Sequences, FiniteSets, TLC

(***************************************************************************)
(* Bounds of the model.                                                    *)
(***************************************************************************)
\* longest chain of API calls a caller makes on one input
MaxCalls == 2
\* most blank-line separated segments appended after the header line
MaxSegments == 2
\* largest lastIndex a caller-supplied RegExp object starts with
MaxLastIndex == 1

(***************************************************************************)
(* JavaScript values.                                                      *)
(***************************************************************************)
Str(s) == [k |-> "string", s |-> s]
NULL == [k |-> "null", s |-> <<>>]
UNDEFINED == [k |-> "undefined", s |-> <<>>]
\* the key is not in the object (reading it yields undefined)
ABSENT == [k |-> "absent", s |-> <<>>]
\* a value of any other type (a number)
NUMBER == [k |-> "number", s |-> <<>>]

\* typeof v === "string"
IsString(v) == v.k = "string"
\* v == null  (null or undefined; a missing key reads as undefined)
IsNullish(v) == v.k \in {"null", "undefined", "absent"}

(***************************************************************************)
(* Character classes of the regular expressions and of String.trim.        *)
(***************************************************************************)
\* \w
WordChars ==
  {"a","b","c","d","e","f","g","h","i","j","k","l","m","n","o","p","q","r",
   "s","t","u","v","w","x","y","z","A","B","C","D","E","F","G","H","I","J",
   "K","L","M","N","O","P","Q","R","S","T","U","V","W","X","Y","Z","0","1",
   "2","3","4","5","6","7","8","9","_"}
\* the characters "." does not match
LineTerminators == {"\n", "\r"}
\* the characters String.prototype.trim removes
WhiteSpace == {" ", "\t", "\n", "\r", "\f"}

EOL == "\n"

\* String.prototype.trim
Trim(s) ==
  LET keep == {i \in 1..Len(s) : s[i] \notin WhiteSpace}
  IN  IF keep = {} THEN <<>>
      ELSE LET lo == CHOOSE i \in keep : \A j \in keep : i <= j
               hi == CHOOSE i \in keep : \A j \in keep : i >= j
           IN  SubSeq(s, lo, hi)

\* String.prototype.split("\n\n"): the pieces between non-overlapping
\* occurrences of the separator, scanned left to right
RECURSIVE Split(_)
Split(s) ==
  LET hits == {i \in 1..(Len(s) - 1) : s[i] = EOL /\ s[i + 1] = EOL}
  IN  IF hits = {} THEN <<s>>
      ELSE LET i == CHOOSE h \in hits : \A g \in hits : h <= g
           IN  <<SubSeq(s, 1, i - 1)>> \o Split(SubSeq(s, i + 2, Len(s)))

\* Array.prototype.slice(1)
Slice1(a) == IF Len(a) <= 1 THEN <<>> ELSE SubSeq(a, 2, Len(a))

(***************************************************************************)
(* The header pattern  ^(\w+)(?:\((.+)\))?(!)?: (.+)                       *)
(* A way to match it on s is a record [k, j, b, n]: group 1 is s[1..k];    *)
(* j > 0 says the scope group took part with group 2 of length j; b = 1    *)
(* says the bang group matched; group 4 has length n.                      *)
(***************************************************************************)
\* position after group 1 and the optional scope group
AfterScope(m) == IF m.j > 0 THEN m.k + m.j + 3 ELSE m.k + 1
\* position of the first character of group 4
SubjectStart(m) == AfterScope(m) + m.b + 2

\* the ways to match, built group by group, left to right
Group1Lengths(s) == {k \in 1..Len(s) : \A i \in 1..k : s[i] \in WordChars}
\* 0: the optional scope group takes no part
Group2Lengths(s, k) ==
  {0} \cup {j \in 1..(Len(s) - k - 2) :
              /\ s[k + 1] = "("
              /\ \A i \in (k + 2)..(k + j + 1) : s[i] \notin LineTerminators
              /\ s[k + j + 2] = ")"}
\* the optional bang, then the literal ": "
Group3Lengths(s, p) ==
  {b \in {0, 1} :
     /\ p + b + 1 <= Len(s)
     /\ b = 1 => s[p] = "!"
     /\ s[p + b] = ":"
     /\ s[p + b + 1] = " "}
Group4Lengths(s, p) ==
  {n \in 1..(Len(s) - p + 1) :
     \A i \in p..(p + n - 1) : s[i] \notin LineTerminators}

HeaderMatches(s) ==
  UNION {UNION {UNION {
    {[k |-> k, j |-> j, b |-> b, n |-> n] :
       n \in Group4Lengths(s, SubjectStart([k |-> k, j |-> j, b |-> b]))} :
    b \in Group3Lengths(s, AfterScope([k |-> k, j |-> j]))} :
    j \in Group2Lengths(s, k)} :
    k \in Group1Lengths(s)}

\* the backtracking order: every quantifier is greedy, so the first match
\* found is the greatest in the order (k, j, b, n), left to right
Prefer(m1, m2) ==
  \/ m1.k > m2.k
  \/ m1.k = m2.k /\ m1.j > m2.j
  \/ m1.k = m2.k /\ m1.j = m2.j /\ m1.b > m2.b
  \/ m1.k = m2.k /\ m1.j = m2.j /\ m1.b = m2.b /\ m1.n >= m2.n

FirstMatch(s) ==
  LET ms == HeaderMatches(s)
  IN  CHOOSE m \in ms : \A m2 \in ms : Prefer(m, m2)

\* the four capture groups of a match; an unmatched group is undefined
Group1(s, m) == Str(SubSeq(s, 1, m.k))
Group2(s, m) ==
  IF m.j > 0 THEN Str(SubSeq(s, m.k + 2, m.k + m.j + 1)) ELSE UNDEFINED
Group3(s, m) == IF m.b = 1 THEN Str(<<"!">>) ELSE UNDEFINED
Group4(s, m) == Str(SubSeq(s, SubjectStart(m), SubjectStart(m) + m.n - 1))
\* index just past the match, which a global or sticky RegExp stores
MatchEnd(m) == SubjectStart(m) + m.n - 1

(***************************************************************************)
(* Options and RegExp objects.  options.headerRegex is absent, a pattern   *)
(* string, or a RegExp object the caller compiled; the overrides of the    *)
(* model have the source of the default pattern.  A RegExp object with     *)
(* the g or y flag keeps the position of its next match in lastIndex.      *)
(***************************************************************************)
NoRegex == [kind |-> "absent", flags |-> {}]
\* the regex stringToHeader chooses: the flags it matches with and
\* whether it is the caller's object (whose lastIndex outlives the call)
ChosenRegex(options) ==
  IF options.headerRegex.kind = "string"
    THEN [flags |-> IF options.caseSensitive THEN {} ELSE {"i"},
          shared |-> FALSE]
  ELSE IF options.headerRegex.kind = "RegExp"
    THEN [flags |-> options.headerRegex.flags, shared |-> TRUE]
  ELSE [flags |-> IF options.caseSensitive THEN {} ELSE {"i"},
        shared |-> FALSE]

\* RegExp.prototype.exec (and test, which is exec without the groups) of
\* the ^-anchored pattern: a match can only start at index 0
RegExpExec(flags, s, lastIndex) ==
  LET tracks == flags \cap {"g", "y"} # {}
      start == IF tracks THEN lastIndex ELSE 0
      found == start = 0 /\ HeaderMatches(s) # {}
  IN  [found |-> found,
       lastIndex |-> IF ~tracks THEN lastIndex
                     ELSE IF found THEN MatchEnd(FirstMatch(s)) ELSE 0]

(***************************************************************************)
(* Errors and outcomes.  Every operation yields a record with threw and    *)
(* error, and the value it returns when it did not throw.                  *)
(***************************************************************************)
\* (the back quotes of the messages are written as apostrophes)
errorMsg ==
  "parse-commit-message: expect 'commit' to follow:\n<type>[optional scope]: <description>\n\n[optional body]\n\n[optional footer]"

TypeError(msg) == [name |-> "TypeError", message |-> msg]
Error(msg) == [name |-> "Error", message |-> msg]
NoError == [name |-> "", message |-> ""]

NoHeader ==
  [type |-> ABSENT, scope |-> ABSENT, subject |-> ABSENT, value |-> ABSENT]
NoCommit == [header |-> NoHeader, body |-> ABSENT, footer |-> ABSENT]

(***************************************************************************)
(* utils                                                                   *)
(***************************************************************************)
isNonEmptyString(str) == IsString(str) /\ Len(str.s) > 0

isHeaderType(obj) ==
  IF ~IsString(obj.type) \/ ~IsString(obj.subject) THEN FALSE
  ELSE IF ~IsNullish(obj.scope) /\ ~IsString(obj.scope) THEN FALSE
  ELSE TRUE

\* stringToHeader forgetting the bang group when it builds the type
stringToHeader_DropBang(val, options, lastIndex) ==
  LET regex == ChosenRegex(options)
      tested == RegExpExec(regex.flags, val,
                           IF regex.shared THEN lastIndex ELSE 0)
      execd == RegExpExec(regex.flags, val, tested.lastIndex)
      out(li) == IF regex.shared THEN li ELSE lastIndex
  IN  IF ~tested.found
        THEN [threw |-> TRUE, error |-> TypeError(errorMsg),
              header |-> NoHeader, lastIndex |-> out(tested.lastIndex)]
      ELSE IF ~execd.found
        THEN [threw |-> TRUE, error |-> Error(errorMsg),
              header |-> NoHeader, lastIndex |-> out(execd.lastIndex)]
      ELSE LET m == FirstMatch(val)
           IN  [threw |-> FALSE, error |-> NoError,
                header |-> [type |-> Group1(val, m),
                            scope |-> IF Group2(val, m) = UNDEFINED THEN NULL
                                      ELSE Group2(val, m),
                            subject |-> Group4(val, m),
                            value |-> ABSENT],
                lastIndex |-> out(execd.lastIndex)]

\* val is a string; lastIndex is that of the caller's RegExp object
stringToHeader(val, options, lastIndex) ==
  LET regex == ChosenRegex(options)
      li0 == IF regex.shared THEN lastIndex ELSE 0
      tested == RegExpExec(regex.flags, val, li0)
      execd == RegExpExec(regex.flags, val, tested.lastIndex)
      out(li) == IF regex.shared THEN li ELSE lastIndex
  IN  IF ~tested.found
        THEN [threw |-> TRUE, error |-> TypeError(errorMsg),
              header |-> NoHeader, lastIndex |-> out(tested.lastIndex)]
      ELSE IF ~execd.found
        THEN [threw |-> TRUE, error |-> Error(errorMsg),
              header |-> NoHeader, lastIndex |-> out(execd.lastIndex)]
      ELSE LET m == FirstMatch(val)
               type == Group1(val, m)
               scope == IF Group2(val, m) = UNDEFINED THEN NULL
                        ELSE Group2(val, m)
               bang == IF Group3(val, m) = UNDEFINED THEN Str(<<>>)
                       ELSE Group3(val, m)
               subject == Group4(val, m)
           IN  [threw |-> FALSE, error |-> NoError,
                header |-> [type |-> Str(type.s \o bang.s),
                            scope |-> scope,
                            subject |-> subject,
                            value |-> ABSENT],
                lastIndex |-> out(execd.lastIndex)]

(***************************************************************************)
(* header                                                                  *)
(***************************************************************************)
parseHeader(header, options, lastIndex) ==
  IF ~isNonEmptyString(header)
    THEN [threw |-> TRUE,
          error |-> TypeError("expect 'header' to be non empty string"),
          header |-> NoHeader, lastIndex |-> lastIndex]
  ELSE stringToHeader(Trim(header.s), options, lastIndex)

checkHeader(header) ==
  IF ~isHeaderType(header)
    THEN [threw |-> TRUE,
          error |-> TypeError("header should be of type 'HeaderType'"),
          header |-> NoHeader]
  ELSE IF ~isNonEmptyString(header.type)
    THEN [threw |-> TRUE,
          error |-> TypeError("header.type should be non empty string"),
          header |-> NoHeader]
  ELSE IF ~isNonEmptyString(header.subject)
    THEN [threw |-> TRUE,
          error |-> TypeError("header.subject should be non empty string"),
          header |-> NoHeader]
  ELSE LET isValidScope ==
             IF header.scope.k # "absent" /\ header.scope.k # "null"
               THEN isNonEmptyString(header.scope)
               ELSE TRUE
       IN  IF ~isValidScope
             THEN [threw |-> TRUE,
                   error |-> TypeError(
  "commit.header.scope should be non empty string when given"),
                   header |-> NoHeader]
           ELSE [threw |-> FALSE, error |-> NoError, header |-> header]

\* validateHeader without the try/catch: the throw of checkHeader escapes
validateHeader_NoCatch(header) ==
  LET checked == checkHeader(header)
  IN  IF checked.threw
        THEN [threw |-> TRUE, thrown |-> checked.error, keys |-> {},
              value |-> NoHeader, error |-> NoError]
      ELSE [threw |-> FALSE, thrown |-> NoError, keys |-> {"value"},
            value |-> checked.header, error |-> NoError]

\* the try/catch turns a throw of checkHeader into the error key
validateHeader(header) ==
  LET checked == checkHeader(header)
  IN  IF checked.threw
        THEN [threw |-> FALSE, thrown |-> NoError, keys |-> {"error"},
              value |-> NoHeader, error |-> checked.error]
      ELSE [threw |-> FALSE, thrown |-> NoError, keys |-> {"value"},
            value |-> checked.header, error |-> NoError]

\* a truthy value read from a header or commit field
Truthy(v) == IsString(v) /\ Len(v.s) > 0

\* stringifyHeader without the final trim()
stringifyHeader_NoTrim(header) ==
  LET res == validateHeader(header)
  IN  IF res.threw
        THEN [threw |-> TRUE, error |-> res.thrown, str |-> <<>>]
      ELSE IF "error" \in res.keys
        THEN [threw |-> TRUE, error |-> res.error, str |-> <<>>]
      ELSE [threw |-> FALSE, error |-> NoError,
            str |-> res.value.type.s
                    \o (IF Truthy(res.value.scope)
                          THEN <<"(">> \o res.value.scope.s \o <<")">>
                          ELSE <<>>)
                    \o <<":", " ">> \o res.value.subject.s]

stringifyHeader(header) ==
  LET res == validateHeader(header)
  IN  IF res.threw
        THEN [threw |-> TRUE, error |-> res.thrown, str |-> <<>>]
      ELSE IF "error" \in res.keys
        THEN [threw |-> TRUE, error |-> res.error, str |-> <<>>]
      ELSE IF "value" \notin res.keys
        THEN [threw |-> TRUE, error |-> TypeError("HeaderType is undefined"),
              str |-> <<>>]
      ELSE LET type == res.value.type
               scope == res.value.scope
               subject == res.value.subject
           IN  [threw |-> FALSE, error |-> NoError,
                str |-> Trim(type.s
                             \o (IF Truthy(scope)
                                   THEN <<"(">> \o scope.s \o <<")">>
                                   ELSE <<>>)
                             \o <<":", " ">> \o subject.s)]

(***************************************************************************)
(* commit                                                                  *)
(***************************************************************************)
checkCommit(commit) ==
  LET res == validateHeader(commit.header)
  IN  IF res.threw
        THEN [threw |-> TRUE, error |-> res.thrown, commit |-> NoCommit]
      ELSE IF "error" \in res.keys
        THEN [threw |-> TRUE, error |-> res.error, commit |-> NoCommit]
      ELSE IF "value" \notin res.keys
        THEN [threw |-> TRUE,
              error |-> TypeError("Header in commit is undefined"),
              commit |-> NoCommit]
      ELSE IF ~IsNullish(commit.body) /\ ~IsString(commit.body)
        THEN [threw |-> TRUE,
              error |-> TypeError("commit.body should be string when given"),
              commit |-> NoCommit]
      ELSE IF ~IsNullish(commit.footer) /\ ~IsString(commit.footer)
        THEN [threw |-> TRUE,
              error |-> TypeError("commit.footer should be string when given"),
              commit |-> NoCommit]
      \* { body: null, footer: null, ...commit, header: headerObj }: the
      \* spread copies every key commit has, whatever its value
      ELSE [threw |-> FALSE, error |-> NoError,
            commit |-> [header |-> res.value,
                        body |-> IF commit.body = ABSENT THEN NULL
                                 ELSE commit.body,
                        footer |-> IF commit.footer = ABSENT THEN NULL
                                   ELSE commit.footer]]

validateCommit(commit) ==
  LET checked == checkCommit(commit)
  IN  IF checked.threw
        THEN [threw |-> FALSE, thrown |-> NoError, keys |-> {"error"},
              value |-> NoCommit, error |-> checked.error]
      ELSE [threw |-> FALSE, thrown |-> NoError, keys |-> {"value"},
            value |-> checked.commit, error |-> NoError]

stringifyCommit(commit) ==
  LET result == validateCommit(commit)
  IN  IF result.threw
        THEN [threw |-> TRUE, error |-> result.thrown, str |-> <<>>]
      ELSE IF "error" \in result.keys
        THEN [threw |-> TRUE, error |-> result.error, str |-> <<>>]
      ELSE LET header == stringifyHeader(result.value.header)
               body == IF Truthy(result.value.body)
                         THEN <<EOL, EOL>> \o result.value.body.s ELSE <<>>
               footer == IF Truthy(result.value.footer)
                           THEN <<EOL, EOL>> \o result.value.footer.s
                           ELSE <<>>
           IN  IF header.threw
                 THEN [threw |-> TRUE, error |-> header.error, str |-> <<>>]
               ELSE [threw |-> FALSE, error |-> NoError,
                     str |-> header.str \o body \o footer]

\* x?.trim()
OptionalTrim(v) == IF IsNullish(v) THEN UNDEFINED ELSE Str(Trim(v.s))

parseCommit(commit, options, lastIndex) ==
  IF ~isNonEmptyString(commit)
    THEN [threw |-> TRUE,
          error |-> TypeError("expect 'commit' to be non empty string"),
          commit |-> NoCommit, lastIndex |-> lastIndex]
  ELSE LET header == parseHeader(commit, options, lastIndex)
           rest == Slice1(Split(commit.s))
           body == IF Len(rest) >= 1 THEN Str(rest[1]) ELSE NULL
           footer == IF Len(rest) >= 2 THEN Str(rest[2]) ELSE NULL
       IN  IF header.threw
             THEN [threw |-> TRUE, error |-> header.error,
                   commit |-> NoCommit, lastIndex |-> header.lastIndex]
           ELSE [threw |-> FALSE, error |-> NoError,
                 commit |-> [header |-> header.header,
                             body |-> OptionalTrim(body),
                             footer |-> OptionalTrim(footer)],
                 lastIndex |-> header.lastIndex]

(***************************************************************************)
(* The inputs of the model.                                                *)
(***************************************************************************)
\* every concatenation of one member of each set of strings, in order
RECURSIVE Concat(_)
Concat(sets) ==
  IF sets = <<>> THEN {<<>>}
  ELSE {h \o t : h \in Head(sets), t \in Concat(Tail(sets))}

Blank == <<EOL, EOL>>
Segments == {<<>>, <<"e">>, <<" ", "e", " ">>}
\* exactly n segments, each after a blank line
RECURSIVE TailsOf(_)
TailsOf(n) ==
  IF n = 0 THEN {<<>>}
  ELSE {t \o Blank \o seg : t \in TailsOf(n - 1), seg \in Segments}
Tails(n) == UNION {TailsOf(i) : i \in 0..n}

Leads == {<<>>, <<" ">>, Blank}
TypeTexts == {<<>>, <<"a">>}
ScopeTexts == {<<>>, <<"(", "b", ")">>, <<"(", "b", ")", "(", "c", ")">>}
BangTexts == {<<>>, <<"!">>}
SepTexts == {<<":", " ">>, <<" ">>}
SubjectTexts == {<<>>, <<"c">>, <<"c", " ">>, <<"c", EOL, "d">>}

\* the scenarios of the tests and the documentation
FixBarQux == <<"f","i","x",":"," ","b","a","r"," ","q","u","x">>
FixCliBarQux ==
  <<"f","i","x","(","c","l","i",")",":"," ","b","a","r"," ","q","u","x">>
FixBarQuxNoColon == <<"f","i","x"," ","b","a","r"," ","q","u","x">>
FooBarQuxOkeyDude ==
  <<"f","o","o",":"," ","b","a","r"," ","q","u","x",EOL,EOL,
    "o","k","e","y"," ","d","u","d","e">>
Scenarios == {FixBarQux, FixCliBarQux, FixBarQuxNoColon, FooBarQuxOkeyDude}

Texts ==
  Concat(<<Leads, TypeTexts, ScopeTexts, BangTexts, SepTexts, SubjectTexts,
           Tails(MaxSegments)>>) \cup Scenarios
\* the texts parsed with an overridden headerRegex
OptionTexts ==
  Concat(<<TypeTexts, ScopeTexts, BangTexts, SepTexts, SubjectTexts,
           Tails(1)>>)

DefaultOptions == [caseSensitive |-> FALSE, headerRegex |-> NoRegex]
Overrides ==
  {[kind |-> "string", flags |-> {}]}
    \cup {[kind |-> "RegExp", flags |-> f] : f \in {{}, {"i"}, {"g"}, {"y"}}}
AllOptions ==
  {[caseSensitive |-> cs, headerRegex |-> re] :
     cs \in BOOLEAN, re \in {NoRegex} \cup Overrides}

HeaderTypes == {ABSENT, NUMBER, Str(<<>>), Str(<<"a">>), Str(<<"a", "!">>)}
HeaderScopes ==
  {ABSENT, UNDEFINED, NULL, NUMBER, Str(<<>>), Str(<<"b">>)}
HeaderSubjects ==
  {ABSENT, NUMBER, Str(<<>>), Str(<<"c">>), Str(<<"c", " ">>)}
Headers ==
  {[type |-> t, scope |-> sc, subject |-> su, value |-> ABSENT] :
     t \in HeaderTypes, sc \in HeaderScopes, su \in HeaderSubjects}
    \cup {[type |-> ABSENT, scope |-> ABSENT, subject |-> ABSENT,
           value |-> Str(v)] : v \in {<<"a", ":", " ", "c">>, <<"a", " ",
                                        "c">>}}

CommitHeaders ==
  {h \in Headers :
     /\ h.type \in {Str(<<"a">>), Str(<<"a", "!">>), Str(<<>>)}
     /\ h.scope \in {ABSENT, NULL, Str(<<"b">>)}
     /\ h.subject \in {Str(<<"c">>), NUMBER}}
    \cup {h \in Headers : h.value # ABSENT}
CommitFields ==
  {ABSENT, UNDEFINED, NULL, NUMBER, Str(<<>>), Str(<<"e">>),
   Str(<<" ", "e">>), Str(<<"e", EOL, EOL, "f">>)}
Commits ==
  {[header |-> h, body |-> b, footer |-> f] :
     h \in CommitHeaders, b \in CommitFields, f \in CommitFields}

(***************************************************************************)
(* utils: normalizeCommit and isBreakingChange.  A commit object is a      *)
(* record of its keys; a key the object does not have holds ABSENT (the    *)
(* header key: NoHeader).                                                  *)
(***************************************************************************)
\* String(v), the text a regular expression sees of a value
ToText(v) ==
  IF IsString(v) THEN v.s
  ELSE IF v.k = "null" THEN <<"n", "u", "l", "l">>
  ELSE IF v.k = "number" THEN <<"0">>
  ELSE <<"u", "n", "d", "e", "f", "i", "n", "e", "d">>

\* v ?? ""
OrEmpty(v) == IF IsNullish(v) THEN Str(<<>>) ELSE v

UpperCase ==
  <<"A","B","C","D","E","F","G","H","I","J","K","L","M","N","O","P","Q","R",
    "S","T","U","V","W","X","Y","Z">>
LowerCase ==
  <<"a","b","c","d","e","f","g","h","i","j","k","l","m","n","o","p","q","r",
    "s","t","u","v","w","x","y","z">>
\* the case folding of the i flag
ToLowerCase(s) ==
  [i \in 1..Len(s) |->
     IF \E n \in 1..Len(UpperCase) : UpperCase[n] = s[i]
       THEN LowerCase[CHOOSE n \in 1..Len(UpperCase) : UpperCase[n] = s[i]]
     ELSE s[i]]

\* s.startsWith(w, at - 1)
HasAt(s, at, w) ==
  at >= 1 /\ at + Len(w) - 1 <= Len(s) /\ SubSeq(s, at, at + Len(w) - 1) = w
\* /w1|w2|.../i.test(s): one of the words occurs somewhere in s
TestWords(words, s) ==
  \E w \in words : \E at \in 1..Len(s) : HasAt(ToLowerCase(s), at, w)

\* { ...commit, header: stringToHeader(header.value, options) }, r being
\* the outcome of stringToHeader
WithHeader(commit, r) ==
  [threw |-> r.threw, error |-> r.error,
   commit |-> IF r.threw THEN commit ELSE [commit EXCEPT !.header = r.header]]

normalizeCommit(commit, options) ==
  IF commit.header.value # ABSENT
    THEN WithHeader(commit,
                    stringToHeader(ToText(commit.header.value), options, 0))
  ELSE [threw |-> FALSE, error |-> NoError, commit |-> commit]

Breaking == <<"B", "R", "E", "A", "K", "I", "N", "G">>
Change == <<"C", "H", "A", "N", "G", "E">>
\* the index of the first character at or after p that is not whitespace
SkipSpace(s, p) ==
  LET stops == {q \in p..Len(s) : s[q] \notin WhiteSpace}
  IN  IF stops = {} THEN Len(s) + 1
      ELSE CHOOSE q \in stops : \A r \in stops : q <= r
\* re = /^BREAKING\s+CHANGES?:\s+/ ; re.test(s)
BreakingRe(s) ==
  LET c == SkipSpace(s, Len(Breaking) + 1)
      e == c + Len(Change)
      colon == IF HasAt(s, e, <<"S">>) /\ HasAt(s, e + 1, <<":">>)
                 THEN e + 1 ELSE e
  IN  /\ HasAt(s, 1, Breaking)
      /\ c > Len(Breaking) + 1
      /\ HasAt(s, c, Change)
      /\ HasAt(s, colon, <<":">>)
      /\ colon + 1 <= Len(s) /\ s[colon + 1] \in WhiteSpace

BreakWords ==
  {<<"b","r","e","a","k">>, <<"b","r","e","a","k","i","n","g">>,
   <<"m","a","j","o","r">>}

\* isBreakingChange looking at the type only
isBreakingChange_TypeOnly(commit) ==
  IF ~isHeaderType(commit.header)
    THEN [threw |-> TRUE, error |-> Error("Unsupported header in commit"), is |-> FALSE]
  ELSE [threw |-> FALSE, error |-> NoError,
        is |-> \/ HasAt(commit.header.type.s, Len(commit.header.type.s),
                        <<"!">>)
               \/ TestWords(BreakWords, commit.header.type.s)]

\* (the message ends with the text of commit.header.value, left out here)
isBreakingChange(commit) ==
  IF ~isHeaderType(commit.header)
    THEN [threw |-> TRUE, error |-> Error("Unsupported header in commit"), is |-> FALSE]
  ELSE [threw |-> FALSE, error |-> NoError,
        is |-> \/ HasAt(commit.header.type.s, Len(commit.header.type.s),
                        <<"!">>)
               \/ TestWords(BreakWords, commit.header.type.s)
               \/ BreakingRe(commit.header.subject.s)
               \/ BreakingRe(ToText(OrEmpty(commit.body)))
               \/ BreakingRe(ToText(OrEmpty(commit.footer)))]

(***************************************************************************)
(* Plugins.  The commit objects of the plugin pipeline carry, besides      *)
(* header, body and footer, the keys the plugins attach (increment,        *)
(* mentions) and one key of the caller's own (foo).  A plugin yields       *)
(* threw, error and the patch object it returns.                           *)
(***************************************************************************)
JsTrue == [k |-> "true", s |-> <<>>]
JsFalse == [k |-> "false", s |-> <<>>]
\* an array object and its elements
Array(elems) == [k |-> "array", s |-> elems]

NoObject ==
  [header |-> NoHeader, body |-> ABSENT, footer |-> ABSENT,
   increment |-> ABSENT, mentions |-> ABSENT, foo |-> ABSENT]
ObjectKeys == {"header", "body", "footer", "increment", "mentions", "foo"}
\* Object.keys(obj)
KeysOf(obj) ==
  {key \in ObjectKeys \ {"header"} : obj[key] # ABSENT}
    \cup (IF obj.header # NoHeader THEN {"header"} ELSE {})

\* { key: dflt, ...options }.key : a key the caller's options hold wins,
\* whatever its value
Defaulted(v, dflt) == IF v = ABSENT THEN dflt ELSE v
\* const opts = { caseSensitive: false, normalize: true, ...options }
PluginOptions(normalize) ==
  [caseSensitive |-> FALSE, headerRegex |-> NoRegex,
   normalize |-> Defaulted(normalize, JsTrue)]
\* opts.normalize ? normalizeCommit(commit, opts) : commit
Normalized(commit, opts) ==
  IF Defaulted(opts.normalize, JsTrue) = JsTrue
    THEN normalizeCommit(commit, opts)
  ELSE [threw |-> FALSE, error |-> NoError, commit |-> commit]

PatchWords ==
  {<<"f","i","x">>, <<"b","u","g","f","i","x">>, <<"p","a","t","c","h">>}
MinorWords ==
  {<<"f","e","a","t">>, <<"f","e","a","t","u","r","e">>,
   <<"m","i","n","o","r">>}
Patch == <<"p", "a", "t", "c", "h">>
Minor == <<"m", "i", "n", "o", "r">>
Major == <<"m", "a", "j", "o", "r">>

\* a plugin that throws
Thrown(error) == [threw |-> TRUE, error |-> error, patch |-> NoObject]
\* a plugin that returns a patch
Returned(patch) == [threw |-> FALSE, error |-> NoError, patch |-> patch]

\* the three tests of incrementPlugin in the order of the source: each
\* overwrites the one before
CommitIncrement(type, isBreaking) ==
  LET afterPatch == IF TestWords(PatchWords, type) THEN Patch ELSE <<>>
      afterMinor == IF TestWords(MinorWords, type) THEN Minor ELSE afterPatch
  IN  IF isBreaking THEN Major ELSE afterMinor
\* incrementPlugin after const isBreaking = isBreakingChange(cmt)
\* (isBreakingChange has thrown for every header the isHeaderType guard of
\* the plugin would refuse, so that guard never fires)
IncrementAfter(commit, cmt, isBreaking) ==
  IF isBreaking.threw THEN Thrown(isBreaking.error)
  ELSE IF ~isHeaderType(cmt.header)
    THEN Thrown(TypeError("Header should be of type 'HeaderType'"))
  ELSE Returned([commit EXCEPT
                   !.increment = Str(CommitIncrement(cmt.header.type.s,
                                                     isBreaking.is))])
\* incrementPlugin after const cmt = ..., n being the outcome of the
\* normalization
IncrementWith(commit, n) ==
  IF n.threw THEN Thrown(n.error)
  ELSE IncrementAfter(commit, n.commit, isBreakingChange(n.commit))

\* incrementPlugin testing the fix words last, so that a fix wins over a
\* feat
incrementPlugin_FixWins(commit, options) ==
  LET r == IncrementWith(commit, Normalized(commit, options))
  IN  IF ~r.threw /\ r.patch.increment = Str(Minor)
           /\ TestWords(PatchWords,
                        Normalized(commit, options).commit.header.type.s)
        THEN Returned([r.patch EXCEPT !.increment = Str(Patch)])
      ELSE r

incrementPlugin(commit, options) ==
  IncrementWith(commit, Normalized(commit, options))

(***************************************************************************)
(* The mentions plugin.  An index of the source is 0-based; the position   *)
(* of a character in a sequence is 1-based, so the character at index p    *)
(* is s[p + 1].                                                            *)
(***************************************************************************)
\* the fullwidth commercial at U+FF20, one character
FullwidthAt == "FULLWIDTH_AT"
Sigils == {"@", FullwidthAt}
\* [a-zA-Z0-9_＠!@#$%&*] : what may not stand before the sigil
HandleBreakers == WordChars \cup {FullwidthAt, "!", "@", "#", "$", "%", "&",
  "*"}
\* [a-zA-Z0-9/_] or, with dot, [a-zA-Z0-9/_.]
MentionChars(dot) == WordChars \cup {"/"} \cup (IF dot THEN {"."} ELSE {})
\* the {1,15} of the mention group
MentionMaxLength == 15

\* (?:\b(?!@|＠)|$) after the mention that ends at s[e]: \b holds
\* between s[e] and s[e + 1] when exactly one of them is a word character
MentionEnds(s, e) ==
  LET before == e >= 1 /\ s[e] \in WordChars
      after == e + 1 <= Len(s) /\ s[e + 1] \in WordChars
  IN  \/ before # after /\ ~(e + 1 <= Len(s) /\ s[e + 1] \in Sigils)
      \/ e = Len(s)
\* the lengths the mention group can take when the sigil is s[q]
MentionLengths(s, q, dot) ==
  {n \in 1..MentionMaxLength :
     /\ q + n <= Len(s)
     /\ \A i \in (q + 1)..(q + n) : s[i] \in MentionChars(dot)
     /\ MentionEnds(s, q + n)}
\* (?:@|＠)(?!\/) at s[q], followed by a mention
SigilAt(s, q, dot) ==
  /\ q >= 1 /\ q <= Len(s) /\ s[q] \in Sigils
  /\ ~(q + 1 <= Len(s) /\ s[q + 1] = "/")
  /\ MentionLengths(s, q, dot) # {}
\* the match that starts at index p with its sigil at s[q] (none: q = 0);
\* the mention group is greedy and takes the longest of the lengths
MatchWithSigil(s, p, q, dot) ==
  IF q = 0 THEN [found |-> FALSE, index |-> p, sigil |-> 0, end |-> p]
  ELSE [found |-> TRUE, index |-> p, sigil |-> q,
        end |-> q + CHOOSE len \in MentionLengths(s, q, dot) :
                      \A l \in MentionLengths(s, q, dot) : l <= len]
\* the match that starts at index p, if any: (?:^|[^...]) takes nothing at
\* the start of the string and else one character
MentionMatchAt(s, p, dot) ==
  MatchWithSigil(s, p,
                 IF p = 0 /\ SigilAt(s, 1, dot) THEN 1
                 ELSE IF p + 1 <= Len(s) /\ s[p + 1] \notin HandleBreakers
                         /\ SigilAt(s, p + 2, dot) THEN p + 2
                 ELSE 0,
                 dot)

\* result.push({ handle: m[0].trim(), mention: m[1], index: m.index })
Pushed(s, m) ==
  [handle |-> Trim(SubSeq(s, m.index + 1, m.end)),
   mention |-> SubSeq(s, m.sigil + 1, m.end),
   index |-> m.index]

\* while ((m = regex.exec(str))) result.push(...) : the g flag resumes the
\* search at lastIndex, the end of the last match, and takes the leftmost
\* match from there
RECURSIVE ExecLoop(_, _, _)
ExecNext(s, starts, dot) ==
  IF starts = {} THEN <<>>
  ELSE LET leftmost == CHOOSE x \in starts : \A y \in starts : x <= y
           m == MentionMatchAt(s, leftmost, dot)
       IN  <<Pushed(s, m)>> \o ExecLoop(s, m.end, dot)
ExecLoop(s, lastIndex, dot) ==
  ExecNext(s, {p \in lastIndex..(Len(s) - 1) : MentionMatchAt(s, p, dot).found},
           dot)

\* getMentions counting the index from one
getMentions_OneBased(str, dot) ==
  LET result == ExecLoop(str, 0, dot)
  IN  [i \in 1..Len(result) |-> [result[i] EXCEPT !.index = @ + 1]]

getMentions(str, dot) == ExecLoop(str, 0, dot)

\* mentionsPlugin after const cmt = ..., n being the outcome of the
\* normalization
MentionsOfNormalized(commit, n) ==
  IF n.threw THEN Thrown(n.error)
  ELSE IF ~isHeaderType(n.commit.header)
    THEN Thrown(TypeError(
           "mentionsPlugin: commit.header is not of type 'HeaderTye'"))
  ELSE Returned([commit EXCEPT !.mentions = Array(
         getMentions(ToText(OrEmpty(n.commit.header.subject)), FALSE)
           \o getMentions(ToText(OrEmpty(n.commit.body)), FALSE)
           \o getMentions(ToText(OrEmpty(n.commit.footer)), FALSE))])

\* mentionsPlugin spreading the normalized commit instead of the one it
\* received
mentionsPlugin_Normalized(commit, options) ==
  MentionsOfNormalized(Normalized(commit, options).commit,
                       Normalized(commit, options))

mentionsPlugin(commit, options) ==
  MentionsOfNormalized(commit, Normalized(commit, options))

(***************************************************************************)
(* applyPlugins.  Objects are held by reference: heap[r] is the object     *)
(* with reference r, and the caller's commit objects are the first         *)
(* references.  An item of the commits argument is a string or a           *)
(* reference to a commit object.                                           *)
(***************************************************************************)
StringItem(s) == [kind |-> "string", text |-> s, ref |-> 0]
ObjectItem(r) == [kind |-> "object", text |-> <<>>, ref |-> r]

\* a plugin of the caller's own: it returns the patch {key: val}
AssignPlugin(key, val) == [fn |-> "assign", key |-> key, val |-> val]
MentionsPlugin == [fn |-> "mentionsPlugin", key |-> "", val |-> ABSENT]
IncrementPlugin == [fn |-> "incrementPlugin", key |-> "", val |-> ABSENT]

\* pluginFn(acc, opts)
CallPlugin(pluginFn, acc, opts) ==
  IF pluginFn.fn = "mentionsPlugin" THEN mentionsPlugin(acc, opts)
  ELSE IF pluginFn.fn = "incrementPlugin" THEN incrementPlugin(acc, opts)
  ELSE [threw |-> FALSE, error |-> NoError,
        patch |-> [NoObject EXCEPT ![pluginFn.key] = pluginFn.val]]

\* Object.assign that keeps the value of a key the target already has
ObjectAssign_KeepTarget(target, source) ==
  LET pick(key) == IF target[key] # ABSENT THEN target[key] ELSE source[key]
  IN  [header |-> IF target.header # NoHeader THEN target.header
                  ELSE source.header,
       body |-> pick("body"), footer |-> pick("footer"),
       increment |-> pick("increment"), mentions |-> pick("mentions"),
       foo |-> pick("foo")]

\* Object.assign(target, source), as a value: every key of source is set
ObjectAssign(target, source) ==
  LET pick(key) == IF source[key] # ABSENT THEN source[key] ELSE target[key]
  IN  [header |-> IF source.header # NoHeader THEN source.header
                  ELSE target.header,
       body |-> pick("body"), footer |-> pick("footer"),
       increment |-> pick("increment"), mentions |-> pick("mentions"),
       foo |-> pick("foo")]

\* the fold step writing the patch into the accumulator object itself
produce_InPlace(heap, acc, res) ==
  [heap |-> [heap EXCEPT ![acc] = ObjectAssign(heap[acc], res)], ref |-> acc]

\* produce(acc, (draft) => { Object.assign(draft, res) }) : the base object
\* is left as it is; the result is a new object, or the base itself when
\* the recipe changed nothing
produce(heap, acc, res) ==
  LET draft == ObjectAssign(heap[acc], res)
  IN  IF draft = heap[acc] THEN [heap |-> heap, ref |-> acc]
      ELSE [heap |-> Append(heap, draft), ref |-> Len(heap) + 1]

\* the coercion of a string item left out: commitObject stays {}
Coerced_Empty(s) == NoObject

\* commitObject = { header: { value: singleCommitLike } }
Coerced(s) == [NoObject EXCEPT !.header = [NoHeader EXCEPT !.value = Str(s)]]

\* plugins.reduce(...) over one commit object, as a value: the outcome of
\* the whole fold
RECURSIVE Reduce(_, _, _)
Reduce(plugins, acc, opts) ==
  IF plugins = <<>> THEN [threw |-> FALSE, error |-> NoError, commit |-> acc]
  ELSE LET res == CallPlugin(Head(plugins), acc, opts)
       IN  IF res.threw
             THEN [threw |-> TRUE, error |-> res.error, commit |-> acc]
           ELSE Reduce(Tail(plugins), ObjectAssign(acc, res.patch), opts)

(***************************************************************************)
(* Inputs of the plugin pipeline.                                          *)
(***************************************************************************)
\* most items in a commits array
MaxItems == 2
\* most plugins in a plugin list
MaxPlugins == 2

SeqsUpTo(S, n) == UNION {[1..m -> S] : m \in 0..n}

StructuredHeader(type, scope, subject) ==
  [type |-> Str(type), scope |-> scope, subject |-> Str(subject),
   value |-> ABSENT]
RawHeader(v) == [NoHeader EXCEPT !.value = Str(v)]

\* what the caller puts into a commits array: strings and commit objects
StringValue(s) == [kind |-> "string", text |-> s, obj |-> NoObject]
ObjectValue(o) == [kind |-> "object", text |-> <<>>, obj |-> o]
\* the strings "fix: x" and "nope", and two commit objects
PipelineValues ==
  {StringValue(<<"f", "i", "x", ":", " ", "x">>), StringValue(<<"n", "o",
                 "p", "e">>),
   ObjectValue([NoObject EXCEPT
                  !.header = StructuredHeader(<<"f", "e", "a", "t">>, ABSENT,
                                                <<"y", " ", "@", "b">>),
                  !.body = Str(<<"o", "k", "e", "y", " ", "d", "u", "d",
                                 "e">>),
                  !.foo = Str(<<"p", "o", "s", "s", "i", "b", "l", "e">>)]),
   ObjectValue([NoObject EXCEPT
                  !.header = RawHeader(<<"f", "i", "x", ":", " ", "x">>),
                  !.footer = NULL])}
\* the built-in plugins and two plugins of the caller's own
Plugins ==
  {MentionsPlugin, IncrementPlugin,
   AssignPlugin("body", Str(<<"@", "z">>)), AssignPlugin("body", UNDEFINED)}

\* the commits argument and the heap that holds its objects
ItemsOf(vals) ==
  [i \in 1..Len(vals) |->
     IF vals[i].kind = "string" THEN StringItem(vals[i].text)
     ELSE ObjectItem(Cardinality({j \in 1..i : vals[j].kind = "object"}))]
RECURSIVE HeapOf(_)
HeapOf(vals) ==
  IF vals = <<>> THEN <<>>
  ELSE (IF Head(vals).kind = "object" THEN <<Head(vals).obj>> ELSE <<>>)
         \o HeapOf(Tail(vals))
Given(isArray, vals) ==
  [isArray |-> isArray, items |-> ItemsOf(vals), heap |-> HeapOf(vals)]
PipelineInputs ==
  {Given(TRUE, vals) : vals \in SeqsUpTo(PipelineValues, MaxItems)}
    \cup {Given(FALSE, <<v>>) : v \in PipelineValues}

\* single commit objects that exercise the classification of the plugins
\* fix, feat, Fix, FEATURE, bugfix, minor, major, Breaking, chore, prefix,
\* featfix, fix!, chore!, feat! and the empty string
ClassTypes ==
  {<<"f", "i", "x">>, <<"f", "e", "a", "t">>, <<"F", "i", "x">>, <<"F", "E",
     "A", "T", "U", "R", "E">>, <<"b", "u", "g", "f", "i", "x">>, <<"m", "i",
     "n", "o", "r">>,
   <<"m", "a", "j", "o", "r">>, <<"B", "r", "e", "a", "k", "i", "n", "g">>,
     <<"c", "h", "o", "r", "e">>, <<"p", "r", "e", "f", "i", "x">>, <<"f",
     "e", "a", "t", "f", "i", "x">>, <<"f", "i", "x", "!">>,
   <<"c", "h", "o", "r", "e", "!">>, <<"f", "e", "a", "t", "!">>, <<>>}
\* "x", "BREAKING CHANGE: x", "see @b, (@c)"
ClassSubjects ==
  {<<"x">>, <<"B", "R", "E", "A", "K", "I", "N", "G", " ", "C", "H", "A",
     "N", "G", "E", ":", " ", "x">>, <<"s", "e", "e", " ", "@", "b", ",",
     " ", "(", "@", "c", ")">>}
\* "BREAKING  CHANGES:" + EOL + "y", "BREAKING CHANGE:y",
\* "a BREAKING CHANGE: y", "foo @tunnckoCore and @bar, right?" and a text
\* of mentions that end in "/", follow a mention, use the fullwidth sigil,
\* begin with "/", and have 17 and 15 characters
ClassBodies ==
  {ABSENT, NULL, NUMBER, Str(<<"B", "R", "E", "A", "K", "I", "N", "G", " ",
                               " ", "C", "H", "A", "N", "G", "E", "S", ":",
                               EOL, "y">>),
   Str(<<"B", "R", "E", "A", "K", "I", "N", "G", " ", "C", "H", "A", "N",
         "G", "E", ":", "y">>), Str(<<"a", " ", "B", "R", "E", "A", "K", "I",
         "N", "G", " ", "C", "H", "A", "N", "G", "E", ":", " ", "y">>),
   Str(<<"f", "o", "o", " ", "@", "t", "u", "n", "n", "c", "k", "o", "C",
         "o", "r", "e", " ", "a", "n", "d", " ", "@", "b", "a", "r", ",",
         " ", "r", "i", "g", "h", "t", "?">>),
   Str(<<"@", "a", "/", " ", "@", "d", "@", "e", " ", FullwidthAt, "f", "/",
         "g", ".", " ", "@", "/", "x", " ", "@", "a", "b", "c", "d", "e",
         "f", "g", "h", "i", "j", "k", "l", "m", "n", "o", "p", "q", " ",
         "@", "a", "b", "c", "d", "e", "f", "g", "h", "i", "j", "k", "l",
         "m", "n", "o">>)}
\* "BREAKING CHANGE: z", "breaking change: @z"
ClassFooters ==
  {ABSENT, Str(<<"B", "R", "E", "A", "K", "I", "N", "G", " ", "C", "H", "A",
                 "N", "G", "E", ":", " ", "z">>), Str(<<"b", "r", "e", "a",
                 "k", "i", "n", "g", " ", "c", "h", "a", "n", "g", "e", ":",
                 " ", "@", "z">>)}
\* "feat!: x", "fix(s): BREAKING CHANGE: y", " a: c", "a: c ", "a c"
ClassValues ==
  {<<"f", "e", "a", "t", "!", ":", " ", "x">>, <<"f", "i", "x", "(", "s",
     ")", ":", " ", "B", "R", "E", "A", "K", "I", "N", "G", " ", "C", "H",
     "A", "N", "G", "E", ":", " ", "y">>, <<" ", "a", ":", " ", "c">>, <<"a",
     ":", " ", "c", " ">>,
   <<"a", " ", "c">>}
ClassInputs ==
  {Given(FALSE, <<ObjectValue([NoObject EXCEPT !.header = h, !.body = b,
                                                !.footer = f])>>) :
     h \in {StructuredHeader(t, NULL, s) : t \in ClassTypes,
                                          s \in ClassSubjects}
             \cup {RawHeader(v) : v \in ClassValues}
             \cup {[type |-> Str(<<"f", "i", "x">>), scope |-> NUMBER,
                    subject |-> Str(<<"x">>), value |-> ABSENT]},
     b \in ClassBodies, f \in ClassFooters}

(***************************************************************************)
(* The state: the caller's input, the options and the RegExp object it     *)
(* passes, the calls made so far and what the last call returned; and      *)
(* pipe, the state of a call on the plugin side of the API.                *)
(***************************************************************************)
VARIABLES input, options, lastIndex, hist, ret, pipe

vars == <<input, options, lastIndex, hist, ret, pipe>>

\* no call on the plugin side: call is the function called, pc the place
\* the call has reached, commits and heap the caller's argument and
\* objects, given the heap as it was at the call, at and next the item and
\* the plugin the fold has reached, acc the accumulator; refs, seen and
\* patches record the accumulator handed to each plugin of the current
\* fold and the patch it returned
NoPipe ==
  [call |-> "none", pc |-> "idle", plugins |-> <<>>, normalize |-> ABSENT,
   commits |-> [isArray |-> TRUE, items |-> <<>>], heap |-> <<>>,
   given |-> <<>>, at |-> 1, next |-> 1, acc |-> 0, refs |-> <<>>,
   seen |-> <<>>, patches |-> <<>>, result |-> <<>>, returned |-> <<>>,
   threw |-> FALSE, error |-> NoError, is |-> FALSE, out |-> NoObject]

NoRet ==
  [threw |-> FALSE, error |-> NoError, kind |-> "none", wrapped |-> FALSE,
   keys |-> {}, rerror |-> NoError, text |-> UNDEFINED, header |-> NoHeader,
   commit |-> NoCommit]

TextInput(t) ==
  [kind |-> "string", text |-> t, header |-> NoHeader, commit |-> NoCommit]
HeaderInput(h) ==
  [kind |-> "header", text |-> UNDEFINED, header |-> h, commit |-> NoCommit]
CommitInput(c) ==
  [kind |-> "commit", text |-> UNDEFINED, header |-> NoHeader, commit |-> c]

Init ==
  /\ hist = <<>>
  /\ ret = NoRet
  /\ pipe = NoPipe
  /\ \/ /\ input \in {TextInput(Str(t)) : t \in Texts}
               \cup {TextInput(v) : v \in {UNDEFINED, NULL, NUMBER}}
        /\ options = DefaultOptions
        /\ lastIndex = 0
     \/ /\ input \in {TextInput(Str(t)) : t \in OptionTexts}
        /\ options \in AllOptions \ {DefaultOptions}
        /\ lastIndex \in IF options.headerRegex.kind = "RegExp"
                           THEN 0..MaxLastIndex ELSE {0}
     \/ /\ input \in {HeaderInput(h) : h \in Headers}
                       \cup {CommitInput(c) : c \in Commits}
        /\ options = DefaultOptions
        /\ lastIndex = 0

\* what the caller holds: its input, then what the last call returned
Cur ==
  IF hist = <<>> THEN input
  ELSE [kind |-> IF ret.threw \/ (ret.wrapped /\ "value" \notin ret.keys)
                   THEN "none" ELSE ret.kind,
        text |-> ret.text, header |-> ret.header, commit |-> ret.commit]

CanCall(kind) == Len(hist) < MaxCalls /\ Cur.kind = kind

Threw(e) == [NoRet EXCEPT !.threw = TRUE, !.error = e]

ParseHeader ==
  /\ CanCall("string")
  /\ LET r == parseHeader(Cur.text, options, lastIndex)
     IN  /\ ret' = IF r.threw THEN Threw(r.error)
                   ELSE [NoRet EXCEPT !.kind = "header", !.header = r.header]
         /\ lastIndex' = r.lastIndex
  /\ hist' = Append(hist, "parseHeader")
  /\ UNCHANGED <<input, options, pipe>>

CheckHeader ==
  /\ CanCall("header")
  /\ LET r == checkHeader(Cur.header)
     IN  ret' = IF r.threw THEN Threw(r.error)
                ELSE [NoRet EXCEPT !.kind = "header", !.header = r.header]
  /\ hist' = Append(hist, "checkHeader")
  /\ UNCHANGED <<input, options, lastIndex, pipe>>

ValidateHeader ==
  /\ CanCall("header")
  /\ LET r == validateHeader(Cur.header)
     IN  ret' = IF r.threw THEN Threw(r.thrown)
                ELSE [NoRet EXCEPT !.kind = "header", !.wrapped = TRUE,
                                   !.keys = r.keys, !.rerror = r.error,
                                   !.header = r.value]
  /\ hist' = Append(hist, "validateHeader")
  /\ UNCHANGED <<input, options, lastIndex, pipe>>

StringifyHeader ==
  /\ CanCall("header")
  /\ LET r == stringifyHeader(Cur.header)
     IN  ret' = IF r.threw THEN Threw(r.error)
                ELSE [NoRet EXCEPT !.kind = "string", !.text = Str(r.str)]
  /\ hist' = Append(hist, "stringifyHeader")
  /\ UNCHANGED <<input, options, lastIndex, pipe>>

ParseCommit ==
  /\ CanCall("string")
  /\ LET r == parseCommit(Cur.text, options, lastIndex)
     IN  /\ ret' = IF r.threw THEN Threw(r.error)
                   ELSE [NoRet EXCEPT !.kind = "commit", !.commit = r.commit]
         /\ lastIndex' = r.lastIndex
  /\ hist' = Append(hist, "parseCommit")
  /\ UNCHANGED <<input, options, pipe>>

CheckCommit ==
  /\ CanCall("commit")
  /\ LET r == checkCommit(Cur.commit)
     IN  ret' = IF r.threw THEN Threw(r.error)
                ELSE [NoRet EXCEPT !.kind = "commit", !.commit = r.commit]
  /\ hist' = Append(hist, "checkCommit")
  /\ UNCHANGED <<input, options, lastIndex, pipe>>

ValidateCommit ==
  /\ CanCall("commit")
  /\ LET r == validateCommit(Cur.commit)
     IN  ret' = IF r.threw THEN Threw(r.thrown)
                ELSE [NoRet EXCEPT !.kind = "commit", !.wrapped = TRUE,
                                   !.keys = r.keys, !.rerror = r.error,
                                   !.commit = r.value]
  /\ hist' = Append(hist, "validateCommit")
  /\ UNCHANGED <<input, options, lastIndex, pipe>>

StringifyCommit ==
  /\ CanCall("commit")
  /\ LET r == stringifyCommit(Cur.commit)
     IN  ret' = IF r.threw THEN Threw(r.error)
                ELSE [NoRet EXCEPT !.kind = "string", !.text = Str(r.str)]
  /\ hist' = Append(hist, "stringifyCommit")
  /\ UNCHANGED <<input, options, lastIndex, pipe>>

Next ==
  \/ ParseHeader
  \/ CheckHeader
  \/ ValidateHeader
  \/ StringifyHeader
  \/ ParseCommit
  \/ CheckCommit
  \/ ValidateCommit
  \/ StringifyCommit

Spec == Init /\ [][Next]_vars

TypeOK ==
  /\ Len(hist) <= MaxCalls
  /\ lastIndex \in Nat

(***************************************************************************)
(* The plugin side of the API: the caller holds a commits value and calls  *)
(* applyPlugins, isBreakingChange or normalizeCommit on it.  applyPlugins  *)
(* advances step by step: one step per plugin call of a fold.              *)
(***************************************************************************)
PluginInit ==
  /\ input = TextInput(UNDEFINED)
  /\ options = DefaultOptions
  /\ lastIndex = 0
  /\ hist = <<>>
  /\ ret = NoRet
  /\ \E g \in PipelineInputs \cup ClassInputs :
       pipe = [NoPipe EXCEPT
                 !.commits = [isArray |-> g.isArray, items |-> g.items],
                 !.heap = g.heap, !.given = g.heap]

\* the caller holds one commit object
HoldsObject ==
  /\ ~pipe.commits.isArray
  /\ pipe.commits.items[1].kind = "object"
TheObject == pipe.heap[pipe.commits.items[1].ref]
\* the plugin lists a call is made with
PluginLists ==
  IF [isArray |-> pipe.commits.isArray, items |-> pipe.commits.items,
      heap |-> pipe.heap] \in ClassInputs
    THEN {<<MentionsPlugin>>, <<IncrementPlugin>>}
  ELSE SeqsUpTo(Plugins, MaxPlugins)

\* applyPlugins(plugins, commits, options) is entered; options.normalize
\* is not given, undefined or false
ApplyPlugins ==
  /\ pipe.call = "none"
  /\ \E plugins \in PluginLists, normalize \in {ABSENT, UNDEFINED, JsFalse} :
       pipe' = [pipe EXCEPT !.call = "applyPlugins", !.pc = "item",
                            !.plugins = plugins, !.normalize = normalize]
  /\ UNCHANGED <<input, options, lastIndex, hist, ret>>

\* extendCommitCb is entered for the next item: a string becomes a commit
\* object with a Raw header, a commit object is taken as it is
ExtendCommit ==
  /\ pipe.pc = "item"
  /\ pipe.at <= Len(pipe.commits.items)
  /\ LET singleCommitLike == pipe.commits.items[pipe.at]
         isString == singleCommitLike.kind = "string"
     IN  pipe' = [pipe EXCEPT
           !.pc = "fold", !.next = 1,
           !.refs = <<>>, !.seen = <<>>, !.patches = <<>>,
           !.heap = IF isString
                      THEN Append(@, Coerced(singleCommitLike.text))
                    ELSE @,
           !.acc = IF isString THEN Len(pipe.heap) + 1
                   ELSE singleCommitLike.ref]
  /\ UNCHANGED <<input, options, lastIndex, hist, ret>>

\* the pipe after the call of a plugin: it has thrown, or its patch is
\* merged into the accumulator
AfterPlugin(res) ==
  IF res.threw
    THEN [pipe EXCEPT !.pc = "threw", !.threw = TRUE, !.error = res.error]
  ELSE LET merged == produce(pipe.heap, pipe.acc, res.patch)
       IN  [pipe EXCEPT !.next = @ + 1,
                        !.refs = Append(@, pipe.acc),
                        !.seen = Append(@, pipe.heap[pipe.acc]),
                        !.patches = Append(@, res.patch),
                        !.heap = merged.heap,
                        !.acc = merged.ref]

\* one step of plugins.reduce: the next plugin is called with the
\* accumulator and its patch is merged; a throw leaves applyPlugins
FoldStep ==
  /\ pipe.pc = "fold"
  /\ pipe.next <= Len(pipe.plugins)
  /\ pipe' = AfterPlugin(CallPlugin(pipe.plugins[pipe.next],
                                    pipe.heap[pipe.acc],
                                    PluginOptions(pipe.normalize)))
  /\ UNCHANGED <<input, options, lastIndex, hist, ret>>

\* the folded commit put in front of the results instead of behind them
ConcatResult_Prepend ==
  /\ pipe.pc = "fold"
  /\ pipe.next > Len(pipe.plugins)
  /\ pipe' = [pipe EXCEPT !.pc = "item", !.at = @ + 1,
                          !.result = <<ObjectItem(pipe.acc)>> \o @]
  /\ UNCHANGED <<input, options, lastIndex, hist, ret>>

\* the fold of an item is over: result.concat(extendCommitCb(commit))
ConcatResult ==
  /\ pipe.pc = "fold"
  /\ pipe.next > Len(pipe.plugins)
  /\ pipe' = [pipe EXCEPT !.pc = "item", !.at = @ + 1,
                          !.result = Append(@, ObjectItem(pipe.acc))]
  /\ UNCHANGED <<input, options, lastIndex, hist, ret>>

\* every item is folded: applyPlugins returns the array
ReturnCommits ==
  /\ pipe.pc = "item"
  /\ pipe.at > Len(pipe.commits.items)
  /\ pipe' = [pipe EXCEPT !.pc = "returned", !.returned = pipe.result]
  /\ UNCHANGED <<input, options, lastIndex, hist, ret>>

\* the pipe after a direct call that threw or returned
Outcome(call, r) ==
  [pipe EXCEPT !.call = call,
               !.pc = IF r.threw THEN "threw" ELSE "returned",
               !.threw = r.threw, !.error = r.error]

\* isBreakingChange(commit) on the caller's commit object
IsBreakingChange ==
  /\ pipe.call = "none" /\ HoldsObject
  /\ pipe' = [Outcome("isBreakingChange", isBreakingChange(TheObject))
               EXCEPT !.is = isBreakingChange(TheObject).is]
  /\ UNCHANGED <<input, options, lastIndex, hist, ret>>

\* normalizeCommit(commit, options) on the caller's commit object
NormalizeCommit ==
  /\ pipe.call = "none" /\ HoldsObject
  /\ pipe' = [Outcome("normalizeCommit",
                      normalizeCommit(TheObject, DefaultOptions))
               EXCEPT !.out = normalizeCommit(TheObject, DefaultOptions).commit]
  /\ UNCHANGED <<input, options, lastIndex, hist, ret>>

PluginNext ==
  \/ ApplyPlugins
  \/ ExtendCommit
  \/ FoldStep
  \/ ConcatResult
  \/ ReturnCommits
  \/ IsBreakingChange
  \/ NormalizeCommit

PluginSpec == PluginInit /\ [][PluginNext]_vars

(***************************************************************************)
(* Properties.                                                             *)
(***************************************************************************)
Called(ops) == hist = ops
\* the text the caller passed is a non-empty string
TextGiven == isNonEmptyString(input.text)
Trimmed == Trim(input.text.s)
\* the call used the built-in pattern (no headerRegex override)
DefaultGrammar == options.headerRegex = NoRegex

\* C1: parseHeader(s) of a non-empty string s whose trimmed form matches the
\* header pattern returns the header with type = group 1 followed by the
\* bang group when it matched, scope = group 2 or null when the scope group
\* did not match, and subject = group 4 verbatim; "fix: bar qux" and
\* "fix(cli): bar qux" give the headers of the tests.
C1_ParseHeaderGroups ==
  (Called(<<"parseHeader">>) /\ DefaultGrammar /\ TextGiven
     /\ HeaderMatches(Trimmed) # {}) =>
    LET m == FirstMatch(Trimmed)
    IN  /\ ~ret.threw
        /\ ret.kind = "header"
        /\ ret.header.type =
             Str(Group1(Trimmed, m).s \o (IF m.b = 1 THEN <<"!">> ELSE <<>>))
        /\ ret.header.scope =
             (IF m.j > 0 THEN Group2(Trimmed, m) ELSE NULL)
        /\ ret.header.subject = Group4(Trimmed, m)
        /\ ret.header.value = ABSENT
        /\ input.text = Str(FixBarQux) =>
             ret.header = [type |-> Str(<<"f","i","x">>), scope |-> NULL,
                           subject |-> Str(<<"b","a","r"," ","q","u","x">>),
                           value |-> ABSENT]
        /\ input.text = Str(FixCliBarQux) =>
             ret.header = [type |-> Str(<<"f","i","x">>),
                           scope |-> Str(<<"c","l","i">>),
                           subject |-> Str(<<"b","a","r"," ","q","u","x">>),
                           value |-> ABSENT]

\* a text with a scope and a bang was parsed into type "a!" and scope "b"
C1_Witness ==
  /\ Called(<<"parseHeader">>) /\ DefaultGrammar
  /\ ~ret.threw
  /\ ret.header.type = Str(<<"a", "!">>)
  /\ ret.header.scope = Str(<<"b">>)
  /\ ret.header.subject = Str(<<"c", " ">>)

\* C2: parseHeader(text, options) fails in exactly two cases: with the
\* input error when text is not a non-empty string, and with the grammar
\* error carrying the usage message when the trimmed text does not match
\* the configured header pattern; it never fails otherwise.
C2_ParseHeaderFailsOnlyOnBadInput ==
  Called(<<"parseHeader">>) =>
    /\ ret.threw <=> (~TextGiven \/ HeaderMatches(Trimmed) = {})
    /\ ~TextGiven =>
         ret.error = TypeError("expect 'header' to be non empty string")
    /\ (TextGiven /\ HeaderMatches(Trimmed) = {}) =>
         ret.error = TypeError(errorMsg)

\* the pattern matches s, and the match is the whole of s
IsHeaderLine(s) ==
  HeaderMatches(s) # {} /\ MatchEnd(FirstMatch(s)) = Len(s)

\* C3: for every non-empty string s that matches the default header grammar
\* and has no leading or trailing whitespace, stringifyHeader(parseHeader(s))
\* equals s.  (Stated for the strings the grammar matches as a whole: what
\* follows the header line is not part of the header.)
C3_HeaderRoundTrip ==
  (Called(<<"parseHeader", "stringifyHeader">>) /\ DefaultGrammar
     /\ TextGiven /\ Trimmed = input.text.s
     /\ IsHeaderLine(input.text.s)) =>
    /\ ~ret.threw
    /\ ret.text = input.text

\* a null field and an absent field are the same field
SameField(a, b) ==
  \/ a = b
  \/ IsNullish(a) /\ IsNullish(b)
SameHeader(g, h) ==
  /\ SameField(g.type, h.type)
  /\ SameField(g.scope, h.scope)
  /\ SameField(g.subject, h.subject)

\* C4: for every commit c on which checkCommit succeeds,
\* parseCommit(stringifyCommit(c)) succeeds and yields the header, body and
\* footer of checkCommit(c), a null field and an absent field being equal.
C4_CommitRoundTrip ==
  (Called(<<"stringifyCommit", "parseCommit">>) /\ input.kind = "commit") =>
    LET c == checkCommit(input.commit).commit
    IN  /\ ~ret.threw
        /\ SameHeader(ret.commit.header, c.header)
        /\ SameField(ret.commit.body, c.body)
        /\ SameField(ret.commit.footer, c.footer)

\* the blank-line separated segments after the header portion
Rest == Slice1(Split(input.text.s))

\* C5: in the commit parseCommit returns, a body or footer whose segment is
\* absent from the text is null, and a present segment is returned trimmed.
C5_AbsentSegmentIsNull ==
  (Called(<<"parseCommit">>) /\ ~ret.threw) =>
    /\ ret.commit.body =
         (IF Len(Rest) >= 1 THEN Str(Trim(Rest[1])) ELSE NULL)
    /\ ret.commit.footer =
         (IF Len(Rest) >= 2 THEN Str(Trim(Rest[2])) ELSE NULL)

\* C6: parseCommit(t, options) returns the header parseHeader returns for
\* the portion of t before the first blank-line boundary, and fails when
\* parseHeader fails on that portion.
C6_HeaderPortionOnly ==
  (Called(<<"parseCommit">>) /\ TextGiven) =>
    LET portion == Split(input.text.s)[1]
        parsed == parseHeader(Str(portion), options, 0)
    IN  /\ ret.threw <=> parsed.threw
        /\ ~parsed.threw => ret.commit.header = parsed.header

LastCall == IF hist = <<>> THEN "" ELSE hist[Len(hist)]

\* C7: the commit checkCommit returns has a Structured header, and its body
\* and footer are each a string or null, never undefined; also for a commit
\* parseCommit produced from a message without body or footer.
C7_CheckedCommitShape ==
  (LastCall = "checkCommit" /\ ~ret.threw) =>
    /\ isHeaderType(ret.commit.header)
    /\ ret.commit.body.k \in {"string", "null"}
    /\ ret.commit.footer.k \in {"string", "null"}

HeaderTypeMismatch == TypeError("header should be of type 'HeaderType'")
HeaderScopeEmpty ==
  TypeError("commit.header.scope should be non empty string when given")

\* C8: checkHeader(h) succeeds exactly when type and subject are non-empty
\* strings and scope is absent, null or a non-empty string; it fails with
\* the type-mismatch error when type or subject is not a string or scope is
\* neither absent, null nor a string, otherwise with the validation error
\* naming type when type is empty, else subject when subject is empty, else
\* scope when scope is an empty string.  (A scope key holding undefined is
\* allowed either reading: accepted as absent, or the type mismatch.)
C8_CheckHeaderCases ==
  Called(<<"checkHeader">>) =>
    LET h == input.header
        mismatch == \/ ~IsString(h.type)
                    \/ ~IsString(h.subject)
                    \/ h.scope.k \notin {"absent", "undefined", "null",
                                         "string"}
    IN  IF mismatch THEN ret.threw /\ ret.error = HeaderTypeMismatch
        ELSE IF h.type.s = <<>>
          THEN /\ ret.threw
               /\ ret.error =
                    TypeError("header.type should be non empty string")
        ELSE IF h.subject.s = <<>>
          THEN /\ ret.threw
               /\ ret.error =
                    TypeError("header.subject should be non empty string")
        ELSE IF h.scope = Str(<<>>)
          THEN /\ ret.threw
               /\ ret.error = HeaderScopeEmpty
        ELSE IF h.scope = UNDEFINED
          THEN \/ ~ret.threw /\ ret.header = h
               \/ ret.threw /\ ret.error = HeaderTypeMismatch
        ELSE ~ret.threw /\ ret.header = h

C10_StringifyHeaderRenders ==
  Called(<<"stringifyHeader">>) =>
    LET h == input.header
        checked == checkHeader(h)
    IN  IF checked.threw
          THEN ret.threw /\ ret.error = checked.error /\ ret.kind = "none"
        ELSE /\ ~ret.threw
             /\ ret.kind = "string"
             /\ isNonEmptyString(h.scope) =>
                  ret.text = Str(Trim(h.type.s \o <<"(">> \o h.scope.s
                                      \o <<")", ":", " ">> \o h.subject.s))
             /\ h.scope \in {NULL, ABSENT} =>
                  ret.text = Str(Trim(h.type.s \o <<":",
                                                    " ">> \o h.subject.s))

\* a header with a scope and a subject ending in a space was rendered
C10_Witness ==
  /\ Called(<<"stringifyHeader">>)
  /\ input.header.scope = Str(<<"b">>)
  /\ input.header.subject = Str(<<"c", " ">>)
  /\ ret.text = Str(<<"a", "(", "b", ")", ":", " ", "c">>)

\* the input is a Raw header {value: v} with v a string
RawHeaderGiven ==
  /\ input.kind = "header"
  /\ IsString(input.header.value)
  /\ input.header.type = ABSENT /\ input.header.subject = ABSENT

\* C11: stringifyHeader re-validates a Raw header {value: v} through the
\* header grammar: it fails when v does not satisfy the grammar, and whether
\* it fails is decided by whether v matches the grammar (a Raw header whose
\* value matches is rendered).
C11_RawHeaderRevalidated ==
  (Called(<<"stringifyHeader">>) /\ RawHeaderGiven) =>
    (ret.threw <=> HeaderMatches(Trim(input.header.value.s)) = {})

\* applyPlugins is folding an item
Folding == pipe.call = "applyPlugins" /\ pipe.pc = "fold"
\* the commit object the fold of the current item started from
FoldInput ==
  LET item == pipe.commits.items[pipe.at]
  IN  IF item.kind = "string" THEN Coerced(item.text)
      ELSE pipe.given[item.ref]
\* the value of a key after the first m patches of the current fold: that
\* of the last patch that holds the key, else that of the fold's input
ValueAfter(key, m) ==
  LET holders == {j \in 1..m : key \in KeysOf(pipe.patches[j])}
  IN  IF holders = {} THEN FoldInput[key]
      ELSE pipe.patches[CHOOSE j \in holders : \A i \in holders : i <= j][key]
KeysAfter(m) ==
  KeysOf(FoldInput) \cup UNION {KeysOf(pipe.patches[j]) : j \in 1..m}

\* C12: in applyPlugins the plugins of a fold run left to right, plugin i
\* receiving the accumulator that holds the merged patches of plugins
\* 1..i-1; after every fold step the accumulator holds every key of the
\* original input and of every earlier patch, and the value of each key is
\* that of the last plugin in list order whose patch held the key (the
\* original input's value if no patch held it).
C12_FoldLastPatchWins ==
  Folding =>
    LET n == Len(pipe.patches)
        opts == PluginOptions(pipe.normalize)
    IN  /\ pipe.next = n + 1 /\ Len(pipe.seen) = n
        /\ \A i \in 1..n :
             /\ pipe.patches[i]
                  = CallPlugin(pipe.plugins[i], pipe.seen[i], opts).patch
             /\ KeysOf(pipe.seen[i]) = KeysAfter(i - 1)
             /\ \A key \in ObjectKeys :
                  pipe.seen[i][key] = ValueAfter(key, i - 1)
        /\ KeysOf(pipe.heap[pipe.acc]) = KeysAfter(n)
        /\ \A key \in ObjectKeys :
             pipe.heap[pipe.acc][key] = ValueAfter(key, n)

\* two plugins have patched the key body of an object that had it: the
\* accumulator holds the second plugin's value and the input's key foo
C12_Witness ==
  /\ Folding
  /\ Len(pipe.patches) = 2
  /\ FoldInput.body = Str(<<"o", "k", "e", "y", " ", "d", "u", "d", "e">>)
  /\ pipe.patches[1].body = Str(<<"@", "z">>)
  /\ pipe.patches[2].body = UNDEFINED
  /\ pipe.heap[pipe.acc].body = UNDEFINED
  /\ pipe.heap[pipe.acc].foo = Str(<<"p", "o", "s", "s", "i", "b", "l", "e">>)

\* applyPlugins has returned
Applied == pipe.call = "applyPlugins" /\ pipe.pc = "returned"

\* C13 (as stated): applyPlugins with an empty plugin list is a no-op for
\* every accepted input: the result is the sequence of the input items
\* themselves, unchanged and in order, a single input being wrapped as a
\* one-element sequence.
C13_EmptyListReturnsItems ==
  (Applied /\ pipe.plugins = <<>>) =>
    /\ pipe.returned = pipe.commits.items
    /\ \A r \in 1..Len(pipe.given) : pipe.heap[r] = pipe.given[r]

\* C13 (amended): applyPlugins with an empty plugin list returns one entry
\* per input item, in order, a single input giving a one-element sequence:
\* a commit object is returned itself, unchanged, and a string s is
\* returned as the new commit object {header: {value: s}}.
C13_EmptyListCoercesStrings ==
  (Applied /\ pipe.plugins = <<>>) =>
    /\ Len(pipe.returned) = Len(pipe.commits.items)
    /\ \A k \in 1..Len(pipe.commits.items) :
         LET item == pipe.commits.items[k]
             got == pipe.returned[k]
         IN  IF item.kind = "object"
               THEN got = item /\ pipe.heap[got.ref] = pipe.given[item.ref]
             ELSE /\ got.kind = "object"
                  /\ got.ref > Len(pipe.given)
                  /\ pipe.heap[got.ref] = Coerced(item.text)
                  /\ KeysOf(pipe.heap[got.ref]) = {"header"}

\* an array of a string and a commit object went through an empty list
C13_Witness ==
  /\ Applied /\ pipe.plugins = <<>>
  /\ pipe.commits.isArray
  /\ Len(pipe.commits.items) = 2
  /\ pipe.commits.items[1] = StringItem(<<"f", "i", "x", ":", " ", "x">>)
  /\ pipe.commits.items[2] = ObjectItem(1)
  /\ pipe.returned = <<ObjectItem(2), ObjectItem(1)>>

\* C14: for every commit object c and every list of plugins that do not
\* themselves mutate their argument (the built-in mentions and increment
\* plugins included), during and after applyPlugins(plugins, c) the
\* caller's object c has the keys and the values it had before the call: no
\* fold step writes into c or into an earlier accumulator.
C14_CallerObjectUntouched ==
  pipe.call = "applyPlugins" =>
    /\ \A r \in 1..Len(pipe.given) :
         /\ pipe.heap[r] = pipe.given[r]
         /\ KeysOf(pipe.heap[r]) = KeysOf(pipe.given[r])
    /\ \A i \in 1..Len(pipe.refs) : pipe.heap[pipe.refs[i]] = pipe.seen[i]

\* the built-in plugins ran over one commit object: the result carries
\* mentions and increment, the caller's object does not
C14_Witness ==
  /\ Applied
  /\ HoldsObject
  /\ pipe.plugins = <<MentionsPlugin, IncrementPlugin>>
  /\ pipe.returned[1].ref # pipe.commits.items[1].ref
  /\ KeysOf(pipe.heap[pipe.returned[1].ref])
       = KeysOf(TheObject) \cup {"mentions", "increment"}
  /\ TheObject = pipe.given[1]
  /\ "mentions" \notin KeysOf(TheObject)

\* the commit object the fold of the k-th item starts from
FoldInputOf(k) ==
  LET item == pipe.commits.items[k]
  IN  IF item.kind = "string" THEN Coerced(item.text)
      ELSE pipe.given[item.ref]
\* the outcome of the whole fold of the k-th item
FoldOf(k) ==
  Reduce(pipe.plugins, FoldInputOf(k), PluginOptions(pipe.normalize))

\* C15: for every input sequence of n strings or commit objects
\* applyPlugins returns a flat sequence of exactly n commits in which the
\* k-th result is the end-of-fold accumulator of the k-th input; a failure
\* of a plugin on any item aborts the whole call, which returns no partial
\* sequence.
C15_OneResultPerItem ==
  pipe.call = "applyPlugins" =>
    LET n == Len(pipe.commits.items)
    IN  /\ Applied =>
             /\ Len(pipe.returned) = n
             /\ \A k \in 1..n :
                  /\ ~FoldOf(k).threw
                  /\ pipe.returned[k].kind = "object"
                  /\ pipe.heap[pipe.returned[k].ref] = FoldOf(k).commit
        /\ ~Applied => pipe.returned = <<>>
        /\ pipe.pc = "threw" =>
             /\ pipe.threw
             /\ FoldOf(pipe.at).threw /\ pipe.error = FoldOf(pipe.at).error
             /\ \A k \in 1..(pipe.at - 1) : ~FoldOf(k).threw

\* two different items went through two plugins and came back in order
C15_Witness ==
  /\ Applied
  /\ Len(pipe.commits.items) = 2 /\ Len(pipe.plugins) = 2
  /\ Len(pipe.returned) = 2
  /\ pipe.heap[pipe.returned[1].ref] # pipe.heap[pipe.returned[2].ref]
  /\ pipe.heap[pipe.returned[1].ref] = FoldOf(1).commit
  /\ FoldOf(1).commit # FoldInputOf(1)

\* the increment the claim gives a normalized commit
IncrementOf(cmt) ==
  IF isBreakingChange(cmt).is THEN Major
  ELSE IF TestWords(MinorWords, cmt.header.type.s) THEN Minor
  ELSE IF TestWords(PatchWords, cmt.header.type.s) THEN Patch
  ELSE <<>>
\* the commit has, after normalization, a Structured header
StructuredAfter(commit, opts) ==
  /\ ~Normalized(commit, opts).threw
  /\ isHeaderType(Normalized(commit, opts).commit.header)

ScannedCommit(i) ==
  Normalized(pipe.seen[i], PluginOptions(pipe.normalize)).commit
SubjectText(i) == ToText(OrEmpty(ScannedCommit(i).header.subject))
BodyText(i) == ToText(OrEmpty(ScannedCommit(i).body))
FooterText(i) == ToText(OrEmpty(ScannedCommit(i).footer))
\* the mentions the i-th plugin of the fold attached
MentionsOf(i) == pipe.patches[i].mentions.s
\* the mentions are those of the subject, then of the body, then of the
\* footer, and P(field, mention) holds of each in its field
EachMention(P(_, _), i) ==
  \E a \in 0..Len(MentionsOf(i)) : \E b \in a..Len(MentionsOf(i)) :
    /\ \A j \in 1..a : P(SubjectText(i), MentionsOf(i)[j])
    /\ \A j \in (a + 1)..b : P(BodyText(i), MentionsOf(i)[j])
    /\ \A j \in (b + 1)..Len(MentionsOf(i)) :
         P(FooterText(i), MentionsOf(i)[j])
\* the sigil and the mention stand in the field from position q on
MentionStandsAt(field, m, q) ==
  /\ q >= 1 /\ q <= Len(field) /\ field[q] \in Sigils
  /\ HasAt(field, q + 1, m.mention)
\* the index of the mention is the index of its sigil
IndexAtSigil(field, m) == MentionStandsAt(field, m, m.index + 1)
\* the index of the mention is the index of the character before its
\* sigil, or 0 when the sigil is the first character of the field
IndexAtMatchStart(field, m) ==
  \/ m.index = 0 /\ MentionStandsAt(field, m, 1)
  \/ /\ m.index + 1 <= Len(field) /\ field[m.index + 1] \notin Sigils
     /\ MentionStandsAt(field, m, m.index + 2)
FooAndBar == <<"f", "o", "o", " ", "@", "t", "u", "n", "n", "c", "k", "o",
               "C", "o", "r", "e", " ", "a", "n", "d", " ", "@", "b", "a",
               "r", ",", " ", "r", "i", "g", "h", "t", "?">>
\* a patch of the mentions plugin for the body FooAndBar, nothing else
\* holding a mention
FooAndBarScanned(i) ==
  /\ pipe.plugins[i] = MentionsPlugin
  /\ BodyText(i) = FooAndBar
  /\ SubjectText(i) = <<"x">> /\ FooterText(i) = <<>>
FooAndBarMentions(first, second) ==
  <<[handle |-> <<"@", "t", "u", "n", "n", "c", "k", "o", "C", "o", "r",
    "e">>, mention |-> <<"t", "u", "n", "n", "c", "k", "o", "C", "o", "r",
    "e">>,
     index |-> first],
    [handle |-> <<"@", "b", "a", "r">>, mention |-> <<"b", "a", "r">>,
                  index |-> second]>>

\* C17 (as stated): every Mention produced by the mentions plugin has index
\* equal to the character offset, within the field it was found in, at
\* which its handle begins, that is the position of the sigil; for the body
\* "foo @tunnckoCore and @bar, right?" the mentions are @tunnckoCore at
\* index 4 and @bar at index 21, in that order.
C17_IndexIsSigilOffset ==
  pipe.call = "applyPlugins" =>
    \A i \in 1..Len(pipe.patches) :
      pipe.plugins[i] = MentionsPlugin =>
        /\ EachMention(IndexAtSigil, i)
        /\ FooAndBarScanned(i) => MentionsOf(i) = FooAndBarMentions(4, 21)

\* C17 (amended): every Mention produced by the mentions plugin has index
\* equal to the offset at which the match begins: the offset of the
\* character before the sigil, and the offset of the sigil itself (0) only
\* when the sigil is the first character of the field; for the body
\* "foo @tunnckoCore and @bar, right?" the mentions are @tunnckoCore at
\* index 3 and @bar at index 20, in that order.
C17_IndexIsMatchStart ==
  pipe.call = "applyPlugins" =>
    \A i \in 1..Len(pipe.patches) :
      pipe.plugins[i] = MentionsPlugin =>
        /\ EachMention(IndexAtMatchStart, i)
        /\ FooAndBarScanned(i) => MentionsOf(i) = FooAndBarMentions(3, 20)

\* the mentions plugin has scanned the body of the example
C17_Witness ==
  /\ Applied /\ HoldsObject
  /\ pipe.plugins = <<MentionsPlugin>>
  /\ FooAndBarScanned(1)
  /\ pipe.heap[pipe.returned[1].ref].mentions
       = Array(FooAndBarMentions(3, 20))

\* handle is the sigil followed by mention, and mention is 1 to 15
\* characters of the handle alphabet
HandleIsSigilAndMention(field, m) ==
  /\ m.handle # <<>> /\ m.handle[1] \in Sigils
  /\ Tail(m.handle) = m.mention
  /\ Len(m.mention) >= 1 /\ Len(m.mention) <= MentionMaxLength
  /\ \A n \in 1..Len(m.mention) : m.mention[n] \in MentionChars(FALSE)

\* C18: for every Mention produced by the mentions plugin, handle is exactly
\* the sigil (@ or fullwidth @) followed by mention, and mention is 1 to 15
\* characters from the allowed handle alphabet; handle never contains a
\* character that precedes the sigil in the scanned text.
C18_HandleIsSigilThenMention ==
  pipe.call = "applyPlugins" =>
    \A i \in 1..Len(pipe.patches) :
      pipe.plugins[i] = MentionsPlugin =>
        EachMention(HandleIsSigilAndMention, i)

\* the characters of a field, null or absent (or not a string) being empty
FieldText(v) == IF IsString(v) THEN v.s ELSE <<>>
\* s begins with "BREAKING CHANGE:" or "BREAKING CHANGES:", with
\* whitespace between the two words and whitespace after the colon
BeginsWithBreakingNote(s) ==
  /\ HasAt(s, 1, Breaking)
  /\ \E gap \in 1..Len(s) : \E word \in {<<"C", "H", "A", "N", "G", "E",
                                           ":">>, <<"C", "H", "A", "N", "G",
                                           "E", "S", ":">>} :
       LET at == Len(Breaking) + gap + 1
       IN  /\ \A p \in (Len(Breaking) + 1)..(at - 1) : s[p] \in WhiteSpace
           /\ HasAt(s, at, word)
           /\ at + Len(word) <= Len(s)
           /\ s[at + Len(word)] \in WhiteSpace
\* what the claim calls a breaking change
IsBreakingPerClaim(commit) ==
  LET type == commit.header.type.s
  IN  \/ type # <<>> /\ type[Len(type)] = "!"
      \/ TestWords(BreakWords, type)
      \/ BeginsWithBreakingNote(commit.header.subject.s)
      \/ BeginsWithBreakingNote(FieldText(commit.body))
      \/ BeginsWithBreakingNote(FieldText(commit.footer))

\* C19: for every commit with a Structured header isBreakingChange(commit)
\* is true if and only if at least one holds: type ends with "!"; type
\* matches break|breaking|major without regard to case; or subject, body
\* or footer (null or absent read as empty) begins with "BREAKING CHANGE:"
\* or "BREAKING CHANGES:" (whitespace between the two words, whitespace
\* after the colon); for a header that is not Structured it fails instead
\* of returning a boolean.
C19_BreakingChangeConditions ==
  pipe.call = "isBreakingChange" =>
    IF isHeaderType(TheObject.header)
      THEN /\ pipe.pc = "returned" /\ ~pipe.threw
           /\ pipe.is <=> IsBreakingPerClaim(TheObject)
    ELSE pipe.pc = "threw" /\ pipe.threw /\ pipe.error.name = "Error"

\* a commit whose only breaking mark is a note at the start of its body
C19_Witness ==
  /\ pipe.call = "isBreakingChange"
  /\ TheObject.header = StructuredHeader(<<"f", "i", "x">>, NULL, <<"x">>)
  /\ TheObject.body = Str(<<"B", "R", "E", "A", "K", "I", "N", "G", " ", " ",
                            "C", "H", "A", "N", "G", "E", "S", ":", EOL,
                            "y">>)
  /\ TheObject.footer = ABSENT
  /\ pipe.pc = "returned" /\ pipe.is

\* C20: for every commit whose header is Raw {value: v},
\* normalizeCommit(commit, options) returns a new commit, equal to the
\* input in all other fields, whose header is stringToHeader applied to v
\* with the surrounding whitespace trimmed, so a Raw value with leading or
\* trailing whitespace normalizes to the same header as its trimmed form;
\* for a commit whose header is not Raw it returns the commit unchanged;
\* the input object is never mutated.
C20_NormalizeTrimsRawValue ==
  pipe.call = "normalizeCommit" =>
    /\ pipe.heap = pipe.given
    /\ IF IsString(TheObject.header.value)
         THEN LET trimmed == stringToHeader(Trim(TheObject.header.value.s),
                                            DefaultOptions, 0)
              IN  /\ pipe.threw <=> trimmed.threw
                  /\ ~trimmed.threw =>
                       pipe.out = [TheObject EXCEPT !.header = trimmed.header]
       ELSE ~pipe.threw /\ pipe.out = TheObject

\* C21: for every text and every headerRegex override, given as a string
\* or as a precompiled pattern with any flags and any history of earlier
\* use, stringToHeader returns the Structured header built from the four
\* capture groups whenever the pattern matches the text and fails with the
\* grammar error only when the pattern does not match; repeating the call
\* with the same text and the same options gives the same outcome.
C21_OverrideMatchesAndRepeats ==
  (Called(<<"parseHeader">>) /\ ~DefaultGrammar /\ TextGiven) =>
    LET again == stringToHeader(Trimmed, options, lastIndex)
    IN  /\ ret.threw <=> HeaderMatches(Trimmed) = {}
        /\ ret.threw => ret.error.message = errorMsg
        /\ ~ret.threw =>
             LET m == FirstMatch(Trimmed)
             IN  ret.header =
                   [type |-> Str(Group1(Trimmed, m).s
                                   \o (IF m.b = 1 THEN <<"!">> ELSE <<>>)),
                    scope |-> IF m.j > 0 THEN Group2(Trimmed, m) ELSE NULL,
                    subject |-> Group4(Trimmed, m),
                    value |-> ABSENT]
        /\ again.threw = ret.threw
        /\ again.error = ret.error
        /\ ~ret.threw => again.header = ret.header

\* the built-in plugins and the key each of them adds
BuiltIn(pluginFn) == pluginFn \in {MentionsPlugin, IncrementPlugin}
OwnKey(pluginFn) ==
  IF pluginFn = MentionsPlugin THEN "mentions" ELSE "increment"

\* C22: the built-in mentions and increment plugins return a patch that
\* holds every key of the commit they received with the value it had on
\* entry, plus only their own key (mentions, respectively increment); the
\* header they return is the header they received, so a Raw header
\* {value: s} that a plugin normalized internally is still the same Raw
\* header in the plugin's result and in the output of applyPlugins.
C22_BuiltInPatchKeepsCommit ==
  pipe.call = "applyPlugins" =>
    /\ \A i \in 1..Len(pipe.patches) :
         BuiltIn(pipe.plugins[i]) =>
           /\ KeysOf(pipe.patches[i])
                = KeysOf(pipe.seen[i]) \cup {OwnKey(pipe.plugins[i])}
           /\ \A key \in ObjectKeys \ {OwnKey(pipe.plugins[i])} :
                pipe.patches[i][key] = pipe.seen[i][key]
           /\ pipe.patches[i].header = pipe.seen[i].header
    /\ (Applied /\ \A i \in 1..Len(pipe.plugins) : BuiltIn(pipe.plugins[i])) =>
         \A k \in 1..Len(pipe.returned) :
           /\ pipe.heap[pipe.returned[k].ref].header = FoldInputOf(k).header
           /\ \A key \in ObjectKeys \ {"mentions", "increment"} :
                pipe.heap[pipe.returned[k].ref][key] = FoldInputOf(k)[key]
           /\ KeysOf(pipe.heap[pipe.returned[k].ref])
                = KeysOf(FoldInputOf(k))
                    \cup {OwnKey(pipe.plugins[i]) : i \in 1..Len(pipe.plugins)}

\* a commit with the Raw header {value: "fix: x"} went through both
\* built-in plugins, which normalized it to find the increment: the output
\* still has the Raw header
C22_Witness ==
  /\ Applied /\ HoldsObject
  /\ pipe.normalize = ABSENT
  /\ pipe.plugins = <<MentionsPlugin, IncrementPlugin>>
  /\ TheObject.header = RawHeader(<<"f", "i", "x", ":", " ", "x">>)
  /\ pipe.patches[2].increment = Str(Patch)
  /\ pipe.patches[1].mentions = Array(<<>>)
  /\ pipe.heap[pipe.returned[1].ref].header
       = RawHeader(<<"f", "i", "x", ":", " ", "x">>)
  /\ pipe.heap[pipe.returned[1].ref].increment = Str(Patch)
====
